---- MODULE Spec2Model ----
(***************************************************************************)
(* Model of the Bayesian discrimination engine (bayesian_calculator):      *)
(* entity classification, numeric chunk extraction, the merged timeline    *)
(* for categorical entities, the threshold search, the per-entity          *)
(* threshold cache and process_entities.                                   *)
(*                                                                         *)
(* f64 values.  A finite f64 is held as an integer count of 1/4096ths      *)
(* (so "10" is 40960).  The numeric states of the model differ pairwise    *)
(* by multiples of 20/4096 and have even sums, so every midpoint, every    *)
(* range/20 step and every min + step*i of the threshold search is an      *)
(* exact binary fraction and the integer arithmetic below is the f64       *)
(* arithmetic.  Quotients of durations (match fractions, probabilities)    *)
(* are held as reduced fractions <<numerator, denominator>>: they are      *)
(* the f64 quotients wherever those are exact (0, 1/2, 1, ...) and the     *)
(* exact values where f64 rounds.                                          *)
(* Option<T> is a sequence: <<>> is None, <<x>> is Some(x).                *)
(*                                                                         *)
(* Specifications.  Spec is one engine instance over several calls;        *)
(* SpecRequest and SpecRows are a fresh instance answering one request     *)
(* (one entity, two entities); SpecExtraction applies the chunk            *)
(* extraction and the timeline functions, and SpecThreshold the functions  *)
(* of threshold.rs, to arguments of their own.                             *)
(***************************************************************************)
EXTENDS Integers, Sequences, FiniteSets, TLC

----------------------------------------------------------------------------
(* Generic helpers *)

Abs(n) == IF n < 0 THEN -n ELSE n

RECURSIVE GCD(_, _)
GCD(a, b) == IF b = 0 THEN a ELSE GCD(b, a % b)

\* the f64 quotient n / d of two integers (d >= 0) as a reduced fraction;
\* <<1, 0>> is +inf (n > 0, d = 0) and <<0, 0>> is NaN (0.0 / 0.0)
Rat(n, d) ==
    IF d = 0 THEN <<IF n = 0 THEN 0 ELSE 1, 0>>
    ELSE LET g == GCD(Abs(n), d) IN <<n \div g, d \div g>>
RatLess(a, b) == a[1] * b[2] < b[1] * a[2]
RatLeq(a, b) == a[1] * b[2] <= b[1] * a[2]
RatAbsDiff(a, b) == Rat(Abs(a[1] * b[2] - b[1] * a[2]), a[2] * b[2])

\* the sequence f as an explicit tuple (evaluated once, not on every access)
Vec(f) == SubSeq(f, 1, Len(f))

\* slice::sort_by / sort_by_key: a stable sort under the strict order Less.
\* rank[i] is the position of seq[i] in the result.
StableSort(seq, Less(_, _)) ==
    LET n == Len(seq)
        rank == Vec([i \in 1..n |->
                    1 + Cardinality({j \in 1..n :
                            \/ Less(seq[j], seq[i])
                            \/ (~Less(seq[i], seq[j]) /\ j < i)})])
    IN  Vec([p \in 1..n |-> seq[CHOOSE i \in 1..n : rank[i] = p]])

\* Vec::dedup: drops every element equal to its predecessor
Dedup(seq) ==
    LET Kept(i) == i = 1 \/ seq[i] # seq[i - 1]
        kept == SelectSeq(Vec([i \in 1..Len(seq) |-> i]), Kept)
    IN  Vec([p \in 1..Len(kept) |-> seq[kept[p]]])

RECURSIVE SumDuration(_)
SumDuration(chunks) ==
    IF chunks = <<>> THEN 0 ELSE Head(chunks).duration + SumDuration(Tail(chunks))

RECURSIVE Flatten(_)
Flatten(seqs) == IF seqs = <<>> THEN <<>> ELSE Head(seqs) \o Flatten(Tail(seqs))

----------------------------------------------------------------------------
(* f64 and the two parsers *)

Fin(n) == [cls |-> "finite", num |-> n]
NaN == [cls |-> "nan", num |-> 0]
PosInf == [cls |-> "inf", num |-> 0]
NegInf == [cls |-> "ninf", num |-> 0]
IsFinite(x) == x.cls = "finite"
IsNaN(x) == x.cls = "nan"

\* a < b on f64 (false whenever one side is NaN)
F64Less(a, b) ==
    /\ ~IsNaN(a) /\ ~IsNaN(b)
    /\ \/ a.cls = "ninf" /\ b.cls # "ninf"
       \/ a.cls = "finite" /\ b.cls = "inf"
       \/ a.cls = "finite" /\ b.cls = "finite" /\ a.num < b.num

\* f64::min / f64::max: a NaN operand is ignored
F64Min(a, b) == IF IsNaN(a) THEN b ELSE IF IsNaN(b) THEN a
                ELSE IF F64Less(b, a) THEN b ELSE a
F64Max(a, b) == IF IsNaN(a) THEN b ELSE IF IsNaN(b) THEN a
                ELSE IF F64Less(a, b) THEN b ELSE a

\* str::parse::<f64>().ok() on the state strings of the model; "NaN" and
\* "inf" parse successfully, to non-finite values
ParseF64(s) ==
    CASE s = "10"            -> <<Fin(40960)>>
      [] s = "10.0048828125" -> <<Fin(40980)>>
      [] s = "90"            -> <<Fin(368640)>>
      [] s = "NaN"           -> <<NaN>>
      [] s = "inf"           -> <<PosInf>>
      [] OTHER               -> <<>>

\* A timestamp string is [ok, ms]: ok says whether it is RFC 3339, ms is the
\* instant it denotes.  parse_timestamp maps an unparsable string to 0.
Stamp(t) == [ok |-> TRUE, ms |-> t]
BadStamp == [ok |-> FALSE, ms |-> 0]
parse_timestamp(iso_string) == IF iso_string.ok THEN iso_string.ms ELSE 0

\* format!("{:.2}", v): v in hundredths, round-half-to-even on the exact value
Format2(v) ==
    LET q == (v * 100) \div 4096
        r == (v * 100) % 4096
    IN  IF 2 * r > 4096 THEN q + 1
        ELSE IF 2 * r < 4096 THEN q
        ELSE q + (q % 2)

----------------------------------------------------------------------------
(* sensor_analysis.rs *)

SampleCap == 10
MinChunkMillis == 1000

is_numeric_entity(entity_history) ==
    IF entity_history = <<>> THEN FALSE
    ELSE
      LET sample_size == IF Len(entity_history) < SampleCap
                         THEN Len(entity_history) ELSE SampleCap
          numeric_count == Cardinality({i \in 1..sample_size :
                              /\ entity_history[i].state # "unavailable"
                              /\ entity_history[i].state # "unknown"
                              /\ ParseF64(entity_history[i].state) # <<>>})
      \* (sample_size as f64 * 0.7) as usize truncates: 0 for one sample
      IN  numeric_count >= (sample_size * 7) \div 10

\* history_cache: (timestamp, Option<f64>) pairs, stably sorted by timestamp
HistoryCache(entity_history) ==
    LET raw == Vec([i \in 1..Len(entity_history) |->
                  [time  |-> parse_timestamp(entity_history[i].last_changed),
                   value |-> ParseF64(entity_history[i].state)]])
        ByTime(a, b) == a.time < b.time
    IN  StableSort(raw, ByTime)

\* the chunk loop of one period, from time point i (1-based) on
RECURSIVE ChunkLoop(_, _, _, _, _)
ChunkLoop(history_cache, time_points, i, current_value, desired_output) ==
    IF i > Len(time_points) - 1 THEN <<>>
    ELSE
      LET duration == time_points[i + 1] - time_points[i]
      IN  IF duration < MinChunkMillis
          THEN ChunkLoop(history_cache, time_points, i + 1, current_value,
                         desired_output)
          ELSE
            LET hits == {k \in 1..Len(history_cache) :
                            history_cache[k].time = time_points[i]}
                first == CHOOSE k \in hits : \A m \in hits : k <= m
                updated == IF i > 1 /\ hits # {} /\ history_cache[first].value # <<>>
                           THEN history_cache[first].value
                           ELSE current_value
                emitted == IF updated # <<>>
                           THEN << [sensor_value   |-> updated[1],
                                    duration       |-> duration,
                                    desired_output |-> desired_output] >>
                           ELSE <<>>
            IN  emitted \o ChunkLoop(history_cache, time_points, i + 1, updated,
                                     desired_output)

PeriodChunks(history_cache, period) ==
    LET period_start == parse_timestamp(period.start)
        period_end == parse_timestamp(period.end)
        Inside(e) == e.time > period_start /\ e.time < period_end
        relevant == SelectSeq(history_cache, Inside)
        time_points == <<period_start>>
                       \o Vec([k \in 1..Len(relevant) |-> relevant[k].time])
                       \o <<period_end>>
        before == {k \in 1..Len(history_cache) :
                      history_cache[k].time <= period_start}
        last == CHOOSE k \in before : \A m \in before : m <= k
        initial == IF before = {} THEN <<>> ELSE history_cache[last].value
    IN  ChunkLoop(history_cache, time_points, 1, initial, period.is_true_period)

create_sensor_period_chunks(entity_history, periods) ==
    IF entity_history = <<>> \/ periods = <<>> THEN <<>>
    ELSE LET history_cache == HistoryCache(entity_history)
         IN  Flatten(Vec([p \in 1..Len(periods) |->
                         PeriodChunks(history_cache, periods[p])]))

RECURSIVE FoldMin(_, _)
FoldMin(chunks, acc) ==
    IF chunks = <<>> THEN acc
    ELSE FoldMin(Tail(chunks), F64Min(acc, Head(chunks).sensor_value))

RECURSIVE FoldMax(_, _)
FoldMax(chunks, acc) ==
    IF chunks = <<>> THEN acc
    ELSE FoldMax(Tail(chunks), F64Max(acc, Head(chunks).sensor_value))

\* Option<NumericStateStats> for the chunks all_chunks
NumericStateStats(all_chunks) ==
    LET IsTrue(c) == c.desired_output
        IsFalse(c) == ~c.desired_output
        ValueDuration(cs) == Vec([k \in 1..Len(cs) |->
                                [value |-> cs[k].sensor_value,
                                 duration |-> cs[k].duration]])
    IN  IF all_chunks = <<>> THEN <<>>
        ELSE << [is_numeric   |-> TRUE,
                 min          |-> <<FoldMin(all_chunks, PosInf)>>,
                 max          |-> <<FoldMax(all_chunks, NegInf)>>,
                 true_chunks  |-> ValueDuration(SelectSeq(all_chunks, IsTrue)),
                 false_chunks |-> ValueDuration(SelectSeq(all_chunks, IsFalse))] >>

analyze_numeric_states(entity_history, periods) ==
    NumericStateStats(create_sensor_period_chunks(entity_history, periods))

----------------------------------------------------------------------------
(* threshold.rs *)

EvenSteps == 20
MaxRangeTests == 100
KeyTake == 5

NoThresholds == [above |-> <<>>, below |-> <<>>]

\* value > bound and value <= bound for an f64 value and a finite bound
F64Above(value, bound) ==
    value.cls = "inf" \/ (value.cls = "finite" /\ value.num > bound)
F64AtMost(value, bound) ==
    value.cls = "ninf" \/ (value.cls = "finite" /\ value.num <= bound)

\* variant: the lower bound is inclusive
value_matches_closed(value, thresholds) ==
    CASE thresholds.above # <<>> /\ thresholds.below # <<>> ->
            /\ F64Above(value, thresholds.above[1] - 1)
            /\ F64AtMost(value, thresholds.below[1])
      [] thresholds.above # <<>> /\ thresholds.below = <<>> ->
            F64Above(value, thresholds.above[1] - 1)
      [] thresholds.above = <<>> /\ thresholds.below # <<>> ->
            F64AtMost(value, thresholds.below[1])
      [] OTHER -> FALSE

value_matches_thresholds(value, thresholds) ==
    CASE thresholds.above # <<>> /\ thresholds.below # <<>> ->
            F64Above(value, thresholds.above[1]) /\ F64AtMost(value, thresholds.below[1])
      [] thresholds.above # <<>> /\ thresholds.below = <<>> ->
            F64Above(value, thresholds.above[1])
      [] thresholds.above = <<>> /\ thresholds.below # <<>> ->
            F64AtMost(value, thresholds.below[1])
      [] OTHER -> FALSE

RECURSIVE BinarySearchLoop(_, _, _, _)
BinarySearchLoop(chunks, threshold, left, right) ==
    IF left < right
    THEN LET mid == (left + right) \div 2
         IN  IF chunks[mid + 1].value <= threshold
             THEN BinarySearchLoop(chunks, threshold, mid + 1, right)
             ELSE BinarySearchLoop(chunks, threshold, left, mid)
    ELSE left

\* 0-based index of the first chunk whose value is > threshold
binary_search_first_above(chunks, threshold) ==
    BinarySearchLoop(chunks, threshold, 0, Len(chunks))

\* same loop: 0-based index one past the last chunk whose value is <= threshold
binary_search_last_below(chunks, threshold) ==
    BinarySearchLoop(chunks, threshold, 0, Len(chunks))

\* variant: the chunks up to the upper bound, whatever the lower bound
calculate_chunks_up_to(sorted_chunks, above, below) ==
    LET end_idx == IF below # <<>>
                   THEN binary_search_last_below(sorted_chunks, below[1])
                   ELSE Len(sorted_chunks)
    IN  [matching_duration |-> SumDuration(SubSeq(sorted_chunks, 1, end_idx)),
         total_duration    |-> SumDuration(sorted_chunks)]

\* ChunkStats of a list sorted by value; 0-based i in [start_idx, end_idx)
calculate_chunks_in_range(sorted_chunks, above, below) ==
    LET start_idx == IF above # <<>>
                     THEN binary_search_first_above(sorted_chunks, above[1])
                     ELSE 0
        end_idx == IF below # <<>>
                   THEN binary_search_last_below(sorted_chunks, below[1])
                   ELSE Len(sorted_chunks)
        \* the chunks at 0-based positions i with i >= start_idx && i < end_idx
        matching == SubSeq(sorted_chunks, start_idx + 1, end_idx)
    IN  [matching_duration |-> SumDuration(matching),
         total_duration    |-> SumDuration(sorted_chunks)]

\* |true_pct - false_pct| as a reduced fraction
calculate_threshold_score(sorted_true_chunks, sorted_false_chunks, above, below) ==
    LET true_stats == calculate_chunks_in_range(sorted_true_chunks, above, below)
        false_stats == calculate_chunks_in_range(sorted_false_chunks, above, below)
        true_pct == IF true_stats.total_duration > 0
                    THEN Rat(true_stats.matching_duration, true_stats.total_duration)
                    ELSE <<0, 1>>
        false_pct == IF false_stats.total_duration > 0
                     THEN Rat(false_stats.matching_duration, false_stats.total_duration)
                     ELSE <<0, 1>>
    IN  RatAbsDiff(true_pct, false_pct)

\* the candidate list of a stats record whose chunk values are all finite
Candidates(stats) ==
    LET IntLess(a, b) == a < b
        min == IF stats.min = <<>> THEN 0 ELSE stats.min[1].num
        max == IF stats.max = <<>> THEN 100 * 4096 ELSE stats.max[1].num
        values == Vec([k \in 1..Len(stats.true_chunks) |-> stats.true_chunks[k].value.num])
                  \o Vec([k \in 1..Len(stats.false_chunks) |-> stats.false_chunks[k].value.num])
        all_values == Dedup(StableSort(values, IntLess))
        midpoints == Vec([i \in 1..(Len(all_values) - 1) |->
                         (all_values[i] + all_values[i + 1]) \div 2])
        step == (max - min) \div EvenSteps
        spaced == Vec([i \in 1..(EvenSteps + 1) |-> min + step * (i - 1)])
    IN  Dedup(StableSort(values \o midpoints \o spaced, IntLess))

\* the inner loop for one i: j = i + 1, i + 1 + step, ... below n, left
\* early when test_count reaches MaxRangeTests
RangeRow(n, step, i, test_count) ==
    LET available == (n - i - 2) \div step + 1
        room == MaxRangeTests - test_count
        taken == IF available < room THEN available ELSE room
    IN  Vec([m \in 1..taken |-> <<i, i + 1 + (m - 1) * step>>])

\* the (i, j) index pairs (0-based) the range loop visits, in order
RECURSIVE RangeLoop(_, _, _, _)
RangeLoop(n, step, i, test_count) ==
    IF i >= n - 1 \/ test_count >= MaxRangeTests THEN <<>>
    ELSE LET row == RangeRow(n, step, i, test_count)
         IN  row \o RangeLoop(n, step, i + 1, test_count + Len(row))

\* every threshold the search evaluates, in evaluation order
EvaluationOrder(candidates) ==
    LET n == Len(candidates)
        raw == (n * n) \div MaxRangeTests
        step == IF raw < 1 THEN 1 ELSE raw
        pairs == RangeLoop(n, step, 0, 0)
    IN  Vec([k \in 1..n |-> [above |-> <<candidates[k]>>, below |-> <<>>]])
        \o Vec([k \in 1..n |-> [above |-> <<>>, below |-> <<candidates[k]>>]])
        \o Vec([k \in 1..Len(pairs) |->
               [above |-> <<candidates[pairs[k][1] + 1]>>,
                below |-> <<candidates[pairs[k][2] + 1]>>]])

\* if score > best_score
Improves(score, best_score) == RatLess(best_score, score)

\* The three loops over the evaluations tests[1..n] with the scores
\* scores[1..n].  best_score and best_thresholds are assigned at evaluation k
\* iff its score improves on best_score, which then is -1.0 or the greatest
\* earlier score (every earlier score either became best_score or did not
\* improve on it); the thresholds returned are those of the last assignment.
BestThresholds(tests, scores) ==
    LET Assigned(k) == /\ Improves(scores[k], <<-1, 1>>)
                       /\ \A j \in 1..(k - 1) : Improves(scores[k], scores[j])
        assignments == {k \in 1..Len(tests) : Assigned(k)}
    IN  IF assignments = {} THEN NoThresholds
        ELSE tests[CHOOSE k \in assignments : \A m \in assignments : m <= k]

SearchLoop(tests, sorted_true_chunks, sorted_false_chunks) ==
    BestThresholds(tests,
        Vec([k \in 1..Len(tests) |->
            calculate_threshold_score(sorted_true_chunks, sorted_false_chunks,
                                      tests[k].above, tests[k].below)]))

FiniteChunks(chunks) ==
    Vec([k \in 1..Len(chunks) |-> [value |-> chunks[k].value.num,
                                   duration |-> chunks[k].duration]])

SortedByValue(chunks) ==
    LET ByValue(a, b) == a.value < b.value
    IN  StableSort(FiniteChunks(chunks), ByValue)

AllFinite(stats) ==
    /\ \A k \in 1..Len(stats.true_chunks) : IsFinite(stats.true_chunks[k].value)
    /\ \A k \in 1..Len(stats.false_chunks) : IsFinite(stats.false_chunks[k].value)

\* partial_cmp(..).unwrap() inside sort_by panics as soon as a NaN is
\* compared: the candidate values (both lists non-empty, so at least two)
\* always are.  A +-inf value makes min or max infinite, so `range` is inf
\* or NaN, `min + step * 0` is NaN and the final sort of the candidates
\* panics.  Hence the search panics exactly when some chunk value is not
\* finite.
SearchPanics(stats) == ~AllFinite(stats)

\* variant: the guard does not look at the false chunk list
find_optimal_unguarded(stats) ==
    IF ~stats.is_numeric \/ stats.true_chunks = <<>>
    THEN [panic |-> FALSE, thresholds |-> NoThresholds]
    ELSE IF SearchPanics(stats)
    THEN [panic |-> TRUE, thresholds |-> NoThresholds]
    ELSE [panic |-> FALSE,
          thresholds |-> SearchLoop(EvaluationOrder(Candidates(stats)),
                                    SortedByValue(stats.true_chunks),
                                    SortedByValue(stats.false_chunks))]

\* [panic |-> the call aborts, thresholds |-> the OptimalThresholds returned]
find_optimal_numeric_thresholds(stats) ==
    IF ~stats.is_numeric \/ stats.true_chunks = <<>> \/ stats.false_chunks = <<>>
    THEN [panic |-> FALSE, thresholds |-> NoThresholds]
    ELSE IF SearchPanics(stats)
    THEN [panic |-> TRUE, thresholds |-> NoThresholds]
    ELSE [panic |-> FALSE,
          thresholds |-> SearchLoop(EvaluationOrder(Candidates(stats)),
                                    SortedByValue(stats.true_chunks),
                                    SortedByValue(stats.false_chunks))]

\* the cache key: the formatted (value, duration) pairs of the first KeyTake
\* true chunks and the first KeyTake false chunks
KeyPart(chunks) ==
    LET n == IF Len(chunks) < KeyTake THEN Len(chunks) ELSE KeyTake
    IN  Vec([k \in 1..n |->
            <<IF IsFinite(chunks[k].value)
              THEN <<"finite", Format2(chunks[k].value.num)>>
              ELSE <<chunks[k].value.cls, 0>>,
              chunks[k].duration>>])

get_cache_key(stats) == <<KeyPart(stats.true_chunks), KeyPart(stats.false_chunks)>>

----------------------------------------------------------------------------
(* timeline.rs *)

\* the merged event stream: state changes in input order, then for each
\* period its start and its end; stably sorted by time
Timeline(entity_history, periods) ==
    LET changes == Vec([i \in 1..Len(entity_history) |->
                      [time           |-> parse_timestamp(entity_history[i].last_changed),
                       entry_type     |-> "StateChange",
                       state          |-> <<entity_history[i].state>>,
                       value          |-> ParseF64(entity_history[i].state),
                       is_true_period |-> <<>>]])
        bounds == Flatten(Vec([p \in 1..Len(periods) |->
                      << [time           |-> parse_timestamp(periods[p].start),
                          entry_type     |-> "PeriodStart",
                          state          |-> <<>>,
                          value          |-> <<>>,
                          is_true_period |-> <<periods[p].is_true_period>>],
                         [time           |-> parse_timestamp(periods[p].end),
                          entry_type     |-> "PeriodEnd",
                          state          |-> <<>>,
                          value          |-> <<>>,
                          is_true_period |-> <<periods[p].is_true_period>>] >>]))
        ByTime(a, b) == a.time < b.time
    IN  StableSort(changes \o bounds, ByTime)

\* the sweep from entry i on; current_periods is the set of active polarities
RECURSIVE SweepLoop(_, _, _, _, _)
SweepLoop(timeline, i, current_state, current_value, current_periods) ==
    IF i > Len(timeline) THEN <<>>
    ELSE
      LET entry == timeline[i]
          state == IF entry.entry_type = "StateChange" THEN entry.state
                   ELSE current_state
          value == IF entry.entry_type = "StateChange" THEN entry.value
                   ELSE current_value
          active == CASE entry.entry_type = "PeriodStart" ->
                            current_periods \cup {entry.is_true_period[1]}
                      [] entry.entry_type = "PeriodEnd" ->
                            current_periods \ {entry.is_true_period[1]}
                      [] OTHER -> current_periods
          emitted == IF state # <<>> /\ i < Len(timeline) /\ active # {}
                     THEN << [start          |-> entry.time,
                              end            |-> timeline[i + 1].time,
                              state          |-> state[1],
                              value          |-> value,
                              is_true_period |-> TRUE \in active] >>
                     ELSE <<>>
      IN  emitted \o SweepLoop(timeline, i + 1, state, value, active)

create_unified_timeline(entity_history, periods) ==
    SweepLoop(Timeline(entity_history, periods), 1, <<>>, <<>>, {})

\* variant: segments of every duration are counted
analyze_all_state_segments(segments) ==
    LET kept == DOMAIN segments
        state_in_true_periods(st) ==
            {segments[k].start : k \in {x \in kept :
                segments[x].state = st /\ segments[x].is_true_period}}
        state_in_false_periods(st) ==
            {segments[k].start : k \in {x \in kept :
                segments[x].state = st /\ ~segments[x].is_true_period}}
        all_states == {segments[k].state : k \in kept}
    IN  [st \in all_states |->
            [true_occurrences  |-> Cardinality(state_in_true_periods(st)),
             false_occurrences |-> Cardinality(state_in_false_periods(st))]]

\* state |-> StateAnalysis; the "period identifier" is the segment's start
analyze_state_segments(segments) ==
    LET kept == {k \in 1..Len(segments) :
                    segments[k].end - segments[k].start >= MinChunkMillis}
        state_in_true_periods(st) ==
            {segments[k].start : k \in {x \in kept :
                segments[x].state = st /\ segments[x].is_true_period}}
        state_in_false_periods(st) ==
            {segments[k].start : k \in {x \in kept :
                segments[x].state = st /\ ~segments[x].is_true_period}}
        all_states == {segments[k].state : k \in kept}
    IN  [st \in all_states |->
            [true_occurrences  |-> Cardinality(state_in_true_periods(st)),
             false_occurrences |-> Cardinality(state_in_false_periods(st))]]

----------------------------------------------------------------------------
(* lib.rs *)

ClampLow == <<1, 100>>
ClampHigh == <<99, 100>>

\* variant: prob.max(0.01) only
ClampFloorOnly(prob) ==
    IF prob = <<0, 0>> \/ RatLess(prob, ClampLow) THEN ClampLow ELSE prob

\* prob.max(0.01).min(0.99); f64::max returns the other operand for a NaN
Clamp(prob) ==
    LET raised == IF prob = <<0, 0>> \/ RatLess(prob, ClampLow) THEN ClampLow ELSE prob
    IN  IF raised[2] = 0 \/ RatLess(ClampHigh, raised) THEN ClampHigh ELSE raised

clamp_preserve_discrimination(prob_true, prob_false) ==
    <<Clamp(prob_true), Clamp(prob_false)>>

\* format_threshold_description: the bounds as printed with two decimals
format_threshold_description(thresholds) ==
    CASE thresholds.above # <<>> /\ thresholds.below # <<>> ->
            [kind |-> "range", text |-> "",
             lo |-> Format2(thresholds.above[1]), hi |-> Format2(thresholds.below[1])]
      [] thresholds.above # <<>> /\ thresholds.below = <<>> ->
            [kind |-> ">", text |-> "",
             lo |-> Format2(thresholds.above[1]), hi |-> 0]
      [] thresholds.above = <<>> /\ thresholds.below # <<>> ->
            [kind |-> "<=", text |-> "",
             lo |-> 0, hi |-> Format2(thresholds.below[1])]
      [] OTHER -> [kind |-> "numeric", text |-> "", lo |-> 0, hi |-> 0]

StateDescription(state) == [kind |-> "state", text |-> state, lo |-> 0, hi |-> 0]

\* variant: storing a search result drops the entity's other entries
CalculateAndEvict(cache, entity_id, cache_key, found) ==
    IF found.panic
    THEN [panic |-> TRUE, searched |-> TRUE, thresholds |-> <<>>, cache |-> cache]
    ELSE [panic |-> FALSE, searched |-> TRUE,
          thresholds |-> <<found.thresholds>>,
          cache |-> [e \in DOMAIN cache \cup {entity_id} |->
                        IF e = entity_id
                        THEN [k \in {cache_key} |-> found.thresholds]
                        ELSE cache[e]]]

\* variant: the search result is returned but never stored
CalculateWithoutStore(cache, entity_id, cache_key, found) ==
    IF found.panic
    THEN [panic |-> TRUE, searched |-> TRUE, thresholds |-> <<>>, cache |-> cache]
    ELSE [panic |-> FALSE, searched |-> TRUE,
          thresholds |-> <<found.thresholds>>, cache |-> cache]

\* the miss path (lines 184-191): found is the outcome of
\* find_optimal_numeric_thresholds, stored under cache_key unless it panicked
CalculateAndStore(cache, entity_id, cache_key, found) ==
    LET inner == IF entity_id \in DOMAIN cache THEN cache[entity_id] ELSE <<>>
        stored == [k \in DOMAIN inner \cup {cache_key} |->
                      IF k = cache_key THEN found.thresholds ELSE inner[k]]
    IN  IF found.panic
        THEN [panic |-> TRUE, searched |-> TRUE, thresholds |-> <<>>, cache |-> cache]
        ELSE [panic |-> FALSE, searched |-> TRUE,
              thresholds |-> <<found.thresholds>>,
              cache |-> [e \in DOMAIN cache \cup {entity_id} |->
                            IF e = entity_id THEN stored ELSE cache[e]]]

\* the hit path (lines 178-182), else the miss path
CachedOrCalculated(cache, entity_id, cache_key, stats) ==
    IF entity_id \in DOMAIN cache /\ cache_key \in DOMAIN cache[entity_id]
    THEN [panic |-> FALSE, searched |-> FALSE,
          thresholds |-> <<cache[entity_id][cache_key]>>, cache |-> cache]
    ELSE CalculateAndStore(cache, entity_id, cache_key,
                           find_optimal_numeric_thresholds(stats))

\* The call on the cache `cache` (entity id |-> key |-> OptimalThresholds).
\* searched says whether find_optimal_numeric_thresholds ran.
get_or_calculate_thresholds(cache, entity_id, stats) ==
    CachedOrCalculated(cache, entity_id, get_cache_key(stats), stats)

MatchingDuration(chunks, thresholds) ==
    LET Matches(c) == value_matches_thresholds(c.value, thresholds)
    IN  SumDuration(SelectSeq(chunks, Matches))

\* |prob_given_true - prob_given_false| of the two quotients of lines
\* 91-115, before clamping
UnclampedScore(stats, thresholds) ==
    LET true_total == SumDuration(stats.true_chunks)
        false_total == SumDuration(stats.false_chunks)
        prob_given_true == IF true_total > 0
                           THEN Rat(MatchingDuration(stats.true_chunks, thresholds), true_total)
                           ELSE <<0, 1>>
        prob_given_false == IF false_total > 0
                            THEN Rat(MatchingDuration(stats.false_chunks, thresholds), false_total)
                            ELSE <<0, 1>>
    IN  RatAbsDiff(prob_given_true, prob_given_false)

\* the row pushed for a numeric entity (lines 84-137)
NumericRow(entity_id, stats, thresholds, n_true, n_false) ==
    LET true_total == SumDuration(stats.true_chunks)
        false_total == SumDuration(stats.false_chunks)
        prob_given_true == IF true_total > 0
                           THEN Rat(MatchingDuration(stats.true_chunks, thresholds), true_total)
                           ELSE <<0, 1>>
        prob_given_false == IF false_total > 0
                            THEN Rat(MatchingDuration(stats.false_chunks, thresholds), false_total)
                            ELSE <<0, 1>>
        clamped == clamp_preserve_discrimination(prob_given_true, prob_given_false)
    IN  [entity_id            |-> entity_id,
         state                |-> format_threshold_description(thresholds),
         prob_given_true      |-> clamped[1],
         prob_given_false     |-> clamped[2],
         discrimination_power |-> RatAbsDiff(clamped[1], clamped[2]),
         true_occurrences     |-> n_true,
         false_occurrences    |-> n_false,
         total_true_periods   |-> n_true,
         total_false_periods  |-> n_false,
         numeric_stats        |-> <<stats>>,
         optimal_thresholds   |-> <<thresholds>>]

\* the rows pushed for the states of state_analysis (lines 143-163), as a
\* set: the FxHashMap is iterated in an unspecified order
StateRows(entity_id, state_analysis, n_true, n_false) ==
    LET Row(st) ==
            LET analysis == state_analysis[st]
                clamped == clamp_preserve_discrimination(
                               Rat(analysis.true_occurrences, n_true),
                               Rat(analysis.false_occurrences, n_false))
            IN  [entity_id            |-> entity_id,
                 state                |-> StateDescription(st),
                 prob_given_true      |-> clamped[1],
                 prob_given_false     |-> clamped[2],
                 discrimination_power |-> RatAbsDiff(clamped[1], clamped[2]),
                 true_occurrences     |-> analysis.true_occurrences,
                 false_occurrences    |-> analysis.false_occurrences,
                 total_true_periods   |-> n_true,
                 total_false_periods  |-> n_false,
                 numeric_stats        |-> <<>>,
                 optimal_thresholds   |-> <<>>]
    IN  {Row(st) : st \in DOMAIN state_analysis}

\* the rows pushed for a categorical entity (lines 139-163)
CategoricalRows(entity_id, entity_history, periods, n_true, n_false) ==
    StateRows(entity_id,
              analyze_state_segments(create_unified_timeline(entity_history, periods)),
              n_true, n_false)

\* the numeric branch once the lookup `got` for stats has returned
NumericOutcome(cache, entity_id, stats, got, n_true, n_false) ==
    LET lookup == [entity_id  |-> entity_id,
                   stats      |-> stats,
                   thresholds |-> got.thresholds,
                   searched   |-> got.searched]
    IN  IF got.panic
        THEN [panic |-> TRUE, cache |-> cache, rows |-> {}, lookups |-> {lookup}]
        ELSE [panic |-> FALSE, cache |-> got.cache,
              rows |-> {NumericRow(entity_id, stats, got.thresholds[1], n_true, n_false)},
              lookups |-> {lookup}]

\* the numeric branch (lines 75-137) for the Option numeric_stats
NumericEntity(cache, entity_id, numeric_stats, n_true, n_false) ==
    IF numeric_stats = <<>>
    THEN [panic |-> FALSE, cache |-> cache, rows |-> {}, lookups |-> {}]
    ELSE NumericOutcome(cache, entity_id, numeric_stats[1],
                        get_or_calculate_thresholds(cache, entity_id, numeric_stats[1]),
                        n_true, n_false)

\* one iteration of the loop over the history map (lines 68-165)
ProcessEntity(cache, entity_id, entity_history, periods, n_true, n_false) ==
    IF entity_history = <<>>
    THEN [panic |-> FALSE, cache |-> cache, rows |-> {}, lookups |-> {}]
    ELSE IF is_numeric_entity(entity_history)
    THEN NumericEntity(cache, entity_id,
                       analyze_numeric_states(entity_history, periods), n_true, n_false)
    ELSE [panic |-> FALSE, cache |-> cache,
          rows |-> CategoricalRows(entity_id, entity_history, periods, n_true, n_false),
          lookups |-> {}]

\* the loop over the entities in the iteration order entity_order, from
\* position k on; pushed holds one set of rows per entity visited, step is
\* the outcome of the iteration for entity_order[k]
RECURSIVE ProcessLoop(_, _, _, _, _, _, _)
AfterEntity(step, history, periods, entity_order, k, pushed, lookups) ==
    IF step.panic
    THEN [status |-> "panic", cache |-> step.cache, pushed |-> <<>>,
          lookups |-> lookups \cup step.lookups]
    ELSE ProcessLoop(step.cache, history, periods, entity_order, k + 1,
                     Append(pushed, step.rows), lookups \cup step.lookups)

ProcessLoop(cache, history, periods, entity_order, k, pushed, lookups) ==
    IF k > Len(entity_order)
    THEN [status |-> "ok", cache |-> cache, pushed |-> pushed, lookups |-> lookups]
    ELSE
      LET IsTrue(p) == p.is_true_period
          IsFalse(p) == ~p.is_true_period
      IN  AfterEntity(ProcessEntity(cache, entity_order[k], history[entity_order[k]],
                                    periods, Len(SelectSeq(periods, IsTrue)),
                                    Len(SelectSeq(periods, IsFalse))),
                      history, periods, entity_order, k, pushed, lookups)

\* variant: rejects only when both polarities are missing
ValidationFailsBothEmpty(periods) ==
    LET IsTrue(p) == p.is_true_period
        IsFalse(p) == ~p.is_true_period
    IN  SelectSeq(periods, IsTrue) = <<>> /\ SelectSeq(periods, IsFalse) = <<>>

\* true_periods.is_empty() || false_periods.is_empty()
ValidationFails(periods) ==
    LET IsTrue(p) == p.is_true_period
        IsFalse(p) == ~p.is_true_period
    IN  SelectSeq(periods, IsTrue) = <<>> \/ SelectSeq(periods, IsFalse) = <<>>

\* process_entities up to the final sort, for one iteration order of the map
process_entities(cache, history, periods, entity_order) ==
    IF ValidationFails(periods)
    THEN [status |-> "err", cache |-> cache, pushed |-> <<>>, lookups |-> {}]
    ELSE ProcessLoop(cache, history, periods, entity_order, 1, <<>>, {})

Perms(S) == {f \in [1..Cardinality(S) -> S] : \A i, j \in DOMAIN f : i # j => f[i] # f[j]}

\* the orders in which the rows can have been pushed
RECURSIVE PushOrders(_)
PushOrders(pushed) ==
    IF pushed = <<>> THEN {<<>>}
    ELSE {first \o rest : first \in Perms(Head(pushed)), rest \in PushOrders(Tail(pushed))}

\* variant: the rows are returned in the order they were pushed
LeaveUnsorted(results) == results

\* results.sort_by(|a, b| b.discrimination_power.partial_cmp(&a.discrimination_power))
SortResults(results) ==
    LET Before(a, b) == RatLess(b.discrimination_power, a.discrimination_power)
    IN  StableSort(results, Before)

----------------------------------------------------------------------------
(* Inputs *)

MaxHistory == 2
MaxPeriods == 2
MaxCalls == 2
MaxCallHistory == 2

EntityIds == {"sensor.a", "sensor.b"}

SeqsUpTo(S, n) == UNION {[1..k -> S] : k \in 0..n}

Period(from, to, pol) ==
    [start |-> Stamp(from), end |-> Stamp(to), is_true_period |-> pol]

\* the requests of the single-request specification: observations at 0 s and
\* 1 s in any order; periods that coincide, abut and contain one another
RequestStates == {"10", "90", "on", "NaN"}
RequestStamps == {Stamp(0), Stamp(1000)}
RequestPeriods == {Period(0, 1000, TRUE), Period(0, 1000, FALSE),
                   Period(1000, 2000, FALSE), Period(0, 2000, TRUE)}

Entries(states, stamps) ==
    {[state |-> st, last_changed |-> ts] : st \in states, ts \in stamps}

RequestHistories == SeqsUpTo(Entries(RequestStates, RequestStamps), MaxHistory)
RequestPeriodLists == SeqsUpTo(RequestPeriods, MaxPeriods)

\* the calls of the engine specification: one entity per call, observations
\* one second apart from 0 on; either no period (the call fails validation)
\* or a TRUE second followed by a FALSE second
CallStates == {"10", "10.0048828125", "on"}

CallHistories ==
    {[i \in 1..Len(sts) |-> [state |-> sts[i], last_changed |-> Stamp(1000 * (i - 1))]] :
        sts \in SeqsUpTo(CallStates, MaxCallHistory)}

CallPeriodLists == {<<>>, <<Period(0, 1000, TRUE), Period(1000, 2000, FALSE)>>}

CallMaps == {[e \in {id} |-> h] : id \in EntityIds, h \in CallHistories}

\* the requests of the two-entity specification: each entity is constant,
\* changes state after one second, is numeric or has no history
At(state, t) == [state |-> state, last_changed |-> Stamp(t)]

RowHistories ==
    {<<>>,
     <<At("on", 0)>>,
     <<At("off", 0)>>,
     <<At("on", 0), At("off", 1000)>>,
     <<At("10", 0)>>,
     <<At("10", 0), At("90", 1000)>>}

RowMaps == [EntityIds -> RowHistories]

RowPeriodLists ==
    {<<Period(0, 1000, TRUE), Period(1000, 2000, FALSE)>>,
     <<Period(0, 1000, FALSE), Period(1000, 2000, TRUE)>>,
     <<Period(0, 2000, TRUE), Period(1000, 2000, FALSE)>>,
     <<Period(0, 1000, TRUE), Period(1000, 2000, TRUE), Period(1000, 2000, FALSE)>>}

\* the arguments of the threshold specification: bounds 10, 50 and 90;
\* values below, at, between and above them and the non-finite ones; chunk
\* lists of values 10, 90 and NaN
MaxChunks == 2

SomeOrNone(S) == {<<>>} \cup {<<x>> : x \in S}

ThresholdBounds == {40960, 204800, 368640}
ThresholdInputs ==
    {[above |-> a, below |-> b] :
        a \in SomeOrNone(ThresholdBounds), b \in SomeOrNone(ThresholdBounds)}
MatchValues == {Fin(20480), Fin(40960), Fin(204800), Fin(368640), Fin(389120),
                NaN, PosInf, NegInf}

ChunkValues == {<<Fin(40960), 1000>>, <<Fin(368640), 1000>>,
                <<Fin(368640), 2000>>, <<NaN, 1000>>}
SensorChunkLists(desired_output) ==
    SeqsUpTo({[sensor_value   |-> vd[1],
               duration       |-> vd[2],
               desired_output |-> desired_output] : vd \in ChunkValues},
             MaxChunks)

\* the statistics analyze_numeric_states builds from chunks, the same with
\* is_numeric cleared, and statistics without any chunk
StatsInputs ==
    LET chunk_lists == {t \o f : t \in SensorChunkLists(TRUE),
                                  f \in SensorChunkLists(FALSE)} \ {<<>>}
        built == {NumericStateStats(all_chunks)[1] : all_chunks \in chunk_lists}
        empty == [is_numeric |-> TRUE, min |-> <<>>, max |-> <<>>,
                  true_chunks |-> <<>>, false_chunks |-> <<>>]
    IN  {[st EXCEPT !.is_numeric = b] : st \in built \cup {empty}, b \in BOOLEAN}

\* the chunk lists sorted by value, as find_optimal_numeric_thresholds
\* passes them on
SortedChunkInputs ==
    {chunks \in SeqsUpTo({[value |-> vd[1], duration |-> vd[2]] :
                              vd \in {x \in ChunkValues : IsFinite(x[1])}},
                         MaxChunks) :
        \A k \in 1..(Len(chunks) - 1) :
            chunks[k].value.num <= chunks[k + 1].value.num}

\* the arguments of the extraction specification: observations at 0 s, 1 s
\* and 1.5 s in any order, two of them at the same instant; periods of 1 s,
\* 1.5 s and 2.5 s that contain one another, abut and coincide
MaxSamples == 3

ExtractionEntries ==
    {[state |-> "on", last_changed |-> Stamp(0)],
     [state |-> "10", last_changed |-> Stamp(0)],
     [state |-> "10", last_changed |-> Stamp(1000)],
     [state |-> "90", last_changed |-> Stamp(1000)],
     [state |-> "on", last_changed |-> Stamp(1500)]}
ExtractionPeriods == {Period(0, 2500, TRUE), Period(0, 1000, TRUE),
                      Period(1000, 2500, TRUE), Period(0, 1000, FALSE)}

ExtractionHistories == SeqsUpTo(ExtractionEntries, MaxSamples)
ExtractionPeriodLists == SeqsUpTo(ExtractionPeriods, MaxPeriods)

----------------------------------------------------------------------------
(* The engine *)

VARIABLES
    threshold_cache,  \* BayesianCalculator.threshold_cache
    history,          \* the history map of the request
    periods,          \* the period list of the request
    result,           \* outcome of the last call: status and the rows returned
    lookups,          \* the get_or_calculate_thresholds calls of the last call
    seen,             \* the get_or_calculate_thresholds calls of earlier calls
    calls,            \* number of calls made on this instance
    args,             \* the arguments of the function applied on its own
    returned          \* the function applied on its own and what it returned

vars == <<threshold_cache, history, periods, result, lookups, seen, calls,
          args, returned>>

EmptyMap == [x \in {} |-> <<>>]
NoResult == [status |-> "none", rows |-> <<>>]

\* BayesianCalculator::new
New ==
    /\ threshold_cache = EmptyMap
    /\ result = NoResult
    /\ lookups = {}
    /\ seen = {}
    /\ calls = 0

\* the instance after process_entities has ended with outcome out: the rows
\* are sorted and returned
Return(out) ==
    \E pushed \in PushOrders(out.pushed) :
        /\ threshold_cache' = out.cache
        /\ result' = [status |-> out.status, rows |-> SortResults(pushed)]
        /\ lookups' = out.lookups
        /\ seen' = seen \cup lookups
        /\ calls' = calls + 1

\* calculate_entity_probabilities(h, p) on the instance: process_entities
\* including the final sort.  A panic aborts the instance.
Call(h, p) ==
    /\ result.status # "panic"
    /\ \E entity_order \in Perms(DOMAIN h) :
         Return(process_entities(threshold_cache, h, p, entity_order))

\* no function is applied on its own
NoArgs == <<>>
NoCall == [fn |-> "none", value |-> <<>>]

Init ==
    /\ New
    /\ history = EmptyMap
    /\ periods = <<>>
    /\ args = NoArgs
    /\ returned = NoCall

CalculateEntityProbabilities ==
    /\ calls < MaxCalls
    /\ \E h \in CallMaps, p \in CallPeriodLists : Call(h, p)
    /\ UNCHANGED <<history, periods, args, returned>>

Next == CalculateEntityProbabilities

Spec == Init /\ [][Next]_vars

\* a fresh instance and one request
InitRequest ==
    /\ New
    /\ \E h \in RequestHistories : history = [e \in {"sensor.a"} |-> h]
    /\ periods \in RequestPeriodLists
    /\ args = NoArgs
    /\ returned = NoCall

CalculateRequest ==
    /\ calls = 0
    /\ Call(history, periods)
    /\ UNCHANGED <<history, periods, args, returned>>

NextRequest == CalculateRequest

SpecRequest == InitRequest /\ [][NextRequest]_vars

\* a fresh instance and one request about two entities
InitRows ==
    /\ New
    /\ history \in RowMaps
    /\ periods \in RowPeriodLists
    /\ args = NoArgs
    /\ returned = NoCall

SpecRows == InitRows /\ [][NextRequest]_vars

\* the engine is not involved when a function is applied on its own
EngineIdle ==
    UNCHANGED <<threshold_cache, history, periods, result, lookups, seen, calls>>

\* the chunk extraction and the timeline functions applied to one history
\* and one period list
InitExtraction ==
    /\ New
    /\ history = EmptyMap
    /\ periods = <<>>
    /\ \E h \in ExtractionHistories, p \in ExtractionPeriodLists :
         args = [entity_history |-> h, periods |-> p, segments |-> <<>>]
    /\ returned = NoCall

CreateSensorPeriodChunks ==
    /\ returned.fn = "none"
    /\ returned' = [fn    |-> "create_sensor_period_chunks",
                    value |-> create_sensor_period_chunks(args.entity_history,
                                                          args.periods)]
    /\ UNCHANGED args
    /\ EngineIdle

CreateUnifiedTimeline ==
    /\ returned.fn = "none"
    /\ returned' = [fn    |-> "create_unified_timeline",
                    value |-> create_unified_timeline(args.entity_history,
                                                      args.periods)]
    /\ UNCHANGED args
    /\ EngineIdle

\* analyze_state_segments applied to the segments just returned
AnalyzeStateSegments ==
    /\ returned.fn = "create_unified_timeline"
    /\ args' = [args EXCEPT !.segments = returned.value]
    /\ returned' = [fn    |-> "analyze_state_segments",
                    value |-> analyze_state_segments(returned.value)]
    /\ EngineIdle

\* the functions of threshold.rs applied on their own
InitThreshold ==
    /\ New
    /\ history = EmptyMap
    /\ periods = <<>>
    /\ args = NoArgs
    /\ returned = NoCall

ValueMatchesThresholds ==
    /\ returned.fn = "none"
    /\ \E value \in MatchValues, thresholds \in ThresholdInputs :
         /\ args' = [value |-> value, thresholds |-> thresholds]
         /\ returned' = [fn    |-> "value_matches_thresholds",
                         value |-> value_matches_thresholds(value, thresholds)]
    /\ EngineIdle

CalculateChunksInRange ==
    /\ returned.fn = "none"
    /\ \E sorted_chunks \in SortedChunkInputs, thresholds \in ThresholdInputs :
         /\ args' = [sorted_chunks |-> sorted_chunks, thresholds |-> thresholds]
         /\ returned' = [fn    |-> "calculate_chunks_in_range",
                         value |-> calculate_chunks_in_range(
                                       FiniteChunks(sorted_chunks),
                                       thresholds.above, thresholds.below)]
    /\ EngineIdle

FindOptimalNumericThresholds ==
    /\ returned.fn = "none"
    /\ \E stats \in StatsInputs :
         /\ args' = [stats |-> stats]
         /\ returned' = [fn    |-> "find_optimal_numeric_thresholds",
                         value |-> find_optimal_numeric_thresholds(stats)]
    /\ EngineIdle

NextThreshold ==
    \/ ValueMatchesThresholds
    \/ CalculateChunksInRange
    \/ FindOptimalNumericThresholds

SpecThreshold == InitThreshold /\ [][NextThreshold]_vars

NextExtraction ==
    \/ CreateSensorPeriodChunks
    \/ CreateUnifiedTimeline
    \/ AnalyzeStateSegments

SpecExtraction == InitExtraction /\ [][NextExtraction]_vars

----------------------------------------------------------------------------
(* Properties *)

HasTruePeriod(ps) == \E i \in DOMAIN ps : ps[i].is_true_period
HasFalsePeriod(ps) == \E i \in DOMAIN ps : ~ps[i].is_true_period

\* C1: a request whose period list has no TRUE period or no FALSE period is
\* answered with an error and no rows, whatever the history map holds.
C1_ErrorWithoutBothPolarities ==
    (calls = 1 /\ (~HasTruePeriod(periods) \/ ~HasFalsePeriod(periods)))
        => (result.status = "err" /\ result.rows = <<>>)

\* a request with FALSE periods only and a non-empty history was rejected
C1_Witness ==
    /\ calls = 1
    /\ periods # <<>>
    /\ ~HasTruePeriod(periods)
    /\ history["sensor.a"] # <<>>
    /\ result.status = "err"

\* C2 (as stated): a request with at least one TRUE and one FALSE period
\* completes normally for every history, NaN and infinite states included.
C2_AlwaysCompletes ==
    (calls = 1 /\ HasTruePeriod(periods) /\ HasFalsePeriod(periods))
        => result.status = "ok"

\* C3: a lookup for an entity and statistics that an earlier call on the same
\* instance already looked up returns the same thresholds, and no lookup
\* runs the search for an (entity id, fingerprint) pair looked up before.
C3_RepeatedLookupHitsCache ==
    \A l \in lookups : \A s \in seen :
        l.entity_id = s.entity_id =>
            /\ l.stats = s.stats => l.thresholds = s.thresholds
            /\ get_cache_key(l.stats) = get_cache_key(s.stats) => ~l.searched

\* the second call repeated a lookup of the first call and was served from
\* the cache
C3_Witness ==
    /\ calls = 2
    /\ \E l \in lookups : \E s \in seen :
         /\ l.entity_id = s.entity_id
         /\ l.stats = s.stats
         /\ s.searched
         /\ ~l.searched
         /\ l.thresholds = s.thresholds

\* C4 (as stated): the cache is transparent: after any earlier calls, every
\* lookup yields exactly what find_optimal_numeric_thresholds yields for the
\* statistics looked up.
C4_CacheTransparent ==
    \A l \in lookups :
        LET found == find_optimal_numeric_thresholds(l.stats)
        IN  l.thresholds = IF found.panic THEN <<>> ELSE <<found.thresholds>>

\* the entries of cache `before` are entries of cache `after`, unchanged
CacheExtends(before, after) ==
    \A e \in DOMAIN before :
        /\ e \in DOMAIN after
        /\ \A k \in DOMAIN before[e] :
             k \in DOMAIN after[e] /\ after[e][k] = before[e][k]

\* C5: a call never removes or changes a cache entry, and a call that fails
\* validation or returns no numeric row leaves the cache as it was.
C5_CacheOnlyGrows ==
    [][ /\ CacheExtends(threshold_cache, threshold_cache')
        /\ result'.status = "err" => threshold_cache' = threshold_cache
        /\ (\A i \in DOMAIN result'.rows : result'.rows[i].numeric_stats = <<>>)
              => threshold_cache' = threshold_cache ]_vars

\* a call filled the cache and the next call failed validation
C5_Witness ==
    /\ calls = 2
    /\ result.status = "err"
    /\ threshold_cache # EmptyMap
    /\ seen # {}

\* the indices of the periods of polarity pol during which state st was
\* observed for a segment of at least one second
PeriodsWithState(segments, ps, st, pol) ==
    {i \in DOMAIN ps :
        /\ ps[i].is_true_period = pol
        /\ \E k \in DOMAIN segments :
             /\ segments[k].state = st
             /\ segments[k].end - segments[k].start >= MinChunkMillis
             /\ parse_timestamp(ps[i].start) <= segments[k].start
             /\ segments[k].end <= parse_timestamp(ps[i].end)}

\* C6 (as stated): for a categorical row, true_occurrences is the number of
\* TRUE periods in which the state was observed and never exceeds
\* total_true_periods, and likewise for the FALSE side.
C6_OccurrencesCountPeriods ==
    (calls = 1 /\ result.status = "ok") =>
        \A i \in DOMAIN result.rows :
            LET row == result.rows[i]
                segments == create_unified_timeline(history[row.entity_id], periods)
            IN  row.numeric_stats = <<>> =>
                  /\ row.true_occurrences =
                       Cardinality(PeriodsWithState(segments, periods, row.state.text, TRUE))
                  /\ row.false_occurrences =
                       Cardinality(PeriodsWithState(segments, periods, row.state.text, FALSE))
                  /\ row.true_occurrences <= row.total_true_periods
                  /\ row.false_occurrences <= row.total_false_periods

\* the period list with every label inverted
SwapLabels(ps) == [i \in DOMAIN ps |-> [ps[i] EXCEPT !.is_true_period = ~@]]

\* the request of the state answered by a fresh instance after inverting the
\* labels: same outcome, same rows with the two probabilities exchanged
SwapExchangesProbabilities ==
    \A entity_order \in Perms(DOMAIN history) :
        LET swapped == process_entities(EmptyMap, history, SwapLabels(periods), entity_order)
            rows == UNION {swapped.pushed[k] : k \in DOMAIN swapped.pushed}
        IN  /\ swapped.status = result.status
            /\ {<<r.entity_id, r.state, r.prob_given_true, r.prob_given_false,
                  r.discrimination_power>> : r \in rows}
               = {<<result.rows[i].entity_id, result.rows[i].state,
                    result.rows[i].prob_given_false, result.rows[i].prob_given_true,
                    result.rows[i].discrimination_power>> : i \in DOMAIN result.rows}

\* C7 (as stated): inverting every period label exchanges prob_given_true
\* and prob_given_false of every row and keeps discrimination_power, for
\* every request, overlapping TRUE and FALSE periods included.
C7_SwapSymmetricAlways == calls = 1 => SwapExchangesProbabilities

\* is_numeric_entity as claimed: of the sampled entries that are not
\* "unavailable" or "unknown", at least 70% parse to a finite number; false
\* when there is no such entry
ClaimedNumeric(entity_history) ==
    LET sample_size == IF Len(entity_history) < SampleCap
                       THEN Len(entity_history) ELSE SampleCap
        counted == {k \in 1..sample_size :
                       entity_history[k].state \notin {"unavailable", "unknown"}}
        finite == {k \in counted :
                     /\ ParseF64(entity_history[k].state) # <<>>
                     /\ IsFinite(ParseF64(entity_history[k].state)[1])}
    IN  counted # {} /\ 10 * Cardinality(finite) >= 7 * Cardinality(counted)

\* C8 (as stated): is_numeric_entity is true exactly when at least 70% of
\* the sampled non-sentinel states parse to a finite number.
C8_NumericIffSeventyPercent ==
    (calls = 1 /\ result.status # "err") =>
        \A e \in DOMAIN history :
            is_numeric_entity(history[e]) = ClaimedNumeric(history[e])

\* the scores of the thresholds the search evaluates for stats, in order
EvaluatedScores(stats) ==
    LET tests == EvaluationOrder(Candidates(stats))
        sorted_true == SortedByValue(stats.true_chunks)
        sorted_false == SortedByValue(stats.false_chunks)
    IN  Vec([k \in 1..Len(tests) |->
            calculate_threshold_score(sorted_true, sorted_false,
                                      tests[k].above, tests[k].below)])

\* the earliest evaluated threshold of maximal score
EarliestBest(stats) ==
    LET tests == EvaluationOrder(Candidates(stats))
        scores == EvaluatedScores(stats)
        best == CHOOSE k \in 1..Len(tests) :
                    /\ \A m \in 1..Len(tests) : RatLeq(scores[m], scores[k])
                    /\ \A m \in 1..(k - 1) : scores[m] # scores[k]
    IN  tests[best]

\* above-only candidates ascending, then below-only candidates ascending,
\* then thresholds with both bounds
OrderAsClaimed(stats) ==
    LET n == Len(Candidates(stats))
        tests == EvaluationOrder(Candidates(stats))
    IN  /\ Len(tests) >= 2 * n
        /\ \A k \in 1..n :
             /\ tests[k].above # <<>> /\ tests[k].below = <<>>
             /\ tests[n + k].above = <<>> /\ tests[n + k].below # <<>>
             /\ k < n => /\ tests[k].above[1] < tests[k + 1].above[1]
                         /\ tests[n + k].below[1] < tests[n + k + 1].below[1]
        /\ \A k \in (2 * n + 1)..Len(tests) :
             tests[k].above # <<>> /\ tests[k].below # <<>>

\* C9 (as stated): given non-empty true and false chunk lists, the search
\* evaluates the above-only candidates in ascending order, then the
\* below-only candidates in ascending order, then the range pairs, and
\* returns the earliest evaluated threshold of maximal score.
C9_EarliestBestThreshold ==
    calls = 1 =>
        \A l \in lookups :
            (l.stats.true_chunks # <<>> /\ l.stats.false_chunks # <<>>) =>
                /\ l.thresholds # <<>>
                /\ OrderAsClaimed(l.stats)
                /\ l.thresholds = <<EarliestBest(l.stats)>>

\* every TRUE chunk value lies strictly on one side of every FALSE chunk value
Separable(stats) ==
    /\ stats.true_chunks # <<>>
    /\ stats.false_chunks # <<>>
    /\ \/ \A i \in DOMAIN stats.true_chunks : \A j \in DOMAIN stats.false_chunks :
            F64Less(stats.false_chunks[j].value, stats.true_chunks[i].value)
       \/ \A i \in DOMAIN stats.true_chunks : \A j \in DOMAIN stats.false_chunks :
            F64Less(stats.true_chunks[i].value, stats.false_chunks[j].value)

\* C10 (as stated): for a numeric entity whose TRUE and FALSE chunk values
\* are separable, the thresholds of the row match every chunk of one
\* polarity and none of the other, and the row reports 0.99 and 0.01 with
\* discrimination_power 0.98.
C10_SeparableIsSeparated ==
    \A i \in DOMAIN result.rows :
        LET row == result.rows[i] IN
        (row.numeric_stats # <<>> /\ Separable(row.numeric_stats[1])) =>
            LET stats == row.numeric_stats[1]
                Matches(c) == value_matches_thresholds(c.value, row.optimal_thresholds[1])
                all_true == \A k \in DOMAIN stats.true_chunks : Matches(stats.true_chunks[k])
                no_true == \A k \in DOMAIN stats.true_chunks : ~Matches(stats.true_chunks[k])
                all_false == \A k \in DOMAIN stats.false_chunks : Matches(stats.false_chunks[k])
                no_false == \A k \in DOMAIN stats.false_chunks : ~Matches(stats.false_chunks[k])
            IN  /\ (all_true /\ no_false) \/ (no_true /\ all_false)
                /\ {row.prob_given_true, row.prob_given_false} = {ClampLow, ClampHigh}
                /\ row.discrimination_power = <<49, 50>>

\* the segments of at least one second
LongSegments(segments) ==
    LET Long(seg) == seg.end - seg.start >= MinChunkMillis
    IN  SelectSeq(segments, Long)

\* C11: an interval shorter than 1000 ms adds to nothing.  Every chunk the
\* numeric path returns (and hence every duration summed) lasts at least
\* 1000 ms, and the occurrence counts of the categorical path are those of
\* the segments of at least 1000 ms alone: a state has a count only if it
\* has such a segment, and the shorter segments change no count.
C11_ShortIntervalsNeverCount ==
    /\ returned.fn = "create_sensor_period_chunks" =>
          \A k \in DOMAIN returned.value :
              returned.value[k].duration >= MinChunkMillis
    /\ returned.fn = "analyze_state_segments" =>
          LET long == LongSegments(args.segments)
          IN  /\ DOMAIN returned.value = {long[k].state : k \in DOMAIN long}
              /\ \A st \in DOMAIN returned.value :
                    /\ returned.value[st].true_occurrences =
                         Cardinality({long[k].start : k \in
                             {x \in DOMAIN long :
                                 long[x].state = st /\ long[x].is_true_period}})
                    /\ returned.value[st].false_occurrences =
                         Cardinality({long[k].start : k \in
                             {x \in DOMAIN long :
                                 long[x].state = st /\ ~long[x].is_true_period}})

\* a state seen for 500 ms only has no count while a state seen for
\* exactly 1000 ms has one
C11_Witness ==
    /\ returned.fn = "analyze_state_segments"
    /\ \E k \in DOMAIN args.segments :
         /\ args.segments[k].end - args.segments[k].start = 500
         /\ args.segments[k].state \notin DOMAIN returned.value
    /\ \E k \in DOMAIN args.segments :
         /\ args.segments[k].end - args.segments[k].start = MinChunkMillis
         /\ returned.value[args.segments[k].state].true_occurrences = 1

\* 0.01 <= prob <= 0.99 for a fraction that is a number
InClampRange(prob) ==
    prob[2] > 0 /\ RatLeq(ClampLow, prob) /\ RatLeq(prob, ClampHigh)

\* C12: in every row returned, prob_given_true and prob_given_false lie in
\* [0.01, 0.99], and discrimination_power is the absolute difference of the
\* two and lies in [0, 0.98].
C12_ProbabilitiesClamped ==
    \A i \in DOMAIN result.rows :
        LET row == result.rows[i] IN
        /\ InClampRange(row.prob_given_true)
        /\ InClampRange(row.prob_given_false)
        /\ row.discrimination_power =
             RatAbsDiff(row.prob_given_true, row.prob_given_false)
        /\ row.discrimination_power[2] > 0
        /\ RatLeq(<<0, 1>>, row.discrimination_power)
        /\ RatLeq(row.discrimination_power, <<49, 50>>)

\* a row whose unclamped ratios are 2 (two occurrences, one TRUE period) and
\* 0 reports 0.99 and 0.01
C12_Witness ==
    \E i \in DOMAIN result.rows :
        LET row == result.rows[i] IN
        /\ row.true_occurrences > row.total_true_periods
        /\ row.false_occurrences = 0
        /\ row.prob_given_true = ClampHigh
        /\ row.prob_given_false = ClampLow
        /\ row.discrimination_power = <<49, 50>>

\* C13: the rows returned are in non-increasing order of
\* discrimination_power, whatever entities and states they belong to.
C13_SortedByDiscrimination ==
    \A i \in 1..(Len(result.rows) - 1) :
        RatLeq(result.rows[i + 1].discrimination_power,
               result.rows[i].discrimination_power)

\* three or more rows of both entities were returned, a row of power 0.98
\* first and a row of power 0.49 last
C13_Witness ==
    /\ Len(result.rows) >= 3
    /\ \E i, j \in DOMAIN result.rows :
         result.rows[i].entity_id # result.rows[j].entity_id
    /\ result.rows[1].discrimination_power = <<49, 50>>
    /\ result.rows[Len(result.rows)].discrimination_power = <<49, 100>>

\* a <= b on f64 (false whenever one side is NaN)
F64Leq(a, b) == ~IsNaN(a) /\ ~IsNaN(b) /\ ~F64Less(b, a)

\* C14: value_matches_thresholds(v, {above: a, below: b}) is a < v <= b;
\* with only above set it is v > a, with only below set it is v <= b, and
\* with no bound set it is false for every v.
C14_HalfOpenInterval ==
    returned.fn = "value_matches_thresholds" =>
        LET v == args.value
            above == args.thresholds.above
            below == args.thresholds.below
        IN  returned.value =
              CASE above # <<>> /\ below # <<>> ->
                      F64Less(Fin(above[1]), v) /\ F64Leq(v, Fin(below[1]))
                [] above # <<>> /\ below = <<>> -> F64Less(Fin(above[1]), v)
                [] above = <<>> /\ below # <<>> -> F64Leq(v, Fin(below[1]))
                [] OTHER -> FALSE

\* a value equal to the upper bound of a two-sided threshold matches
C14_Witness ==
    /\ returned.fn = "value_matches_thresholds"
    /\ args.thresholds.above # <<>>
    /\ args.thresholds.below = <<args.value.num>>
    /\ IsFinite(args.value)
    /\ returned.value = TRUE

Evaluated(thresholds) ==
    /\ thresholds.above # <<>> \/ thresholds.below # <<>>
    /\ (thresholds.above # <<>> /\ thresholds.below # <<>>)
          => thresholds.above[1] < thresholds.below[1]

\* C18: for a threshold of the kind the search evaluates and a chunk list
\* sorted by value, the matching duration taken from the binary-searched
\* index range is the summed duration of the chunks whose value satisfies
\* value_matches_thresholds; and the score of the thresholds the search
\* returns is the unclamped |P(match|TRUE) - P(match|FALSE)| of the linear
\* pass of process_entities.
C18_BinarySearchIsLinearPass ==
    /\ (returned.fn = "calculate_chunks_in_range" /\ Evaluated(args.thresholds)) =>
          /\ returned.value.matching_duration =
                MatchingDuration(args.sorted_chunks, args.thresholds)
          /\ returned.value.total_duration = SumDuration(args.sorted_chunks)
    /\ (/\ returned.fn = "find_optimal_numeric_thresholds"
        /\ ~returned.value.panic
        /\ returned.value.thresholds # NoThresholds) =>
          /\ Evaluated(returned.value.thresholds)
          /\ calculate_threshold_score(
                 SortedByValue(args.stats.true_chunks),
                 SortedByValue(args.stats.false_chunks),
                 returned.value.thresholds.above,
                 returned.value.thresholds.below)
             = UnclampedScore(args.stats, returned.value.thresholds)

\* a two-sided threshold cut a sorted list in two: the chunk at the lower
\* bound is left out, the chunk at the upper bound is the match
C18_Witness ==
    /\ returned.fn = "calculate_chunks_in_range"
    /\ args.thresholds.above # <<>>
    /\ args.thresholds.below # <<>>
    /\ Len(args.sorted_chunks) = 2
    /\ args.sorted_chunks[1].value.num = args.thresholds.above[1]
    /\ args.sorted_chunks[2].value.num = args.thresholds.below[1]
    /\ returned.value.matching_duration = args.sorted_chunks[2].duration

\* period q contains the interval from `from` to `to`
Contains(q, from, to) ==
    parse_timestamp(q.start) <= from /\ to <= parse_timestamp(q.end)

\* the segments as claimed: one for every interval of positive length
\* between consecutive timeline points that begins after a state change and
\* lies inside a period, tagged TRUE iff it lies inside a TRUE period
ClaimedSegments(entity_history, ps) ==
    LET timeline == Timeline(entity_history, ps)
        Changes(i) == {k \in 1..i : timeline[k].entry_type = "StateChange"}
        Last(i) == CHOOSE k \in Changes(i) : \A m \in Changes(i) : m <= k
        Inside(i) == {q \in DOMAIN ps :
                         Contains(ps[q], timeline[i].time, timeline[i + 1].time)}
        intervals == {i \in 1..(Len(timeline) - 1) :
                         /\ timeline[i].time < timeline[i + 1].time
                         /\ Changes(i) # {}
                         /\ Inside(i) # {}}
    IN  {[start          |-> timeline[i].time,
          end            |-> timeline[i + 1].time,
          state          |-> timeline[Last(i)].state[1],
          value          |-> timeline[Last(i)].value,
          is_true_period |-> \E q \in Inside(i) : ps[q].is_true_period] :
            i \in intervals}

\* C15 (as stated): create_unified_timeline emits a segment for an interval
\* between consecutive timeline points with a current state iff the
\* interval lies inside at least one period, and tags it TRUE iff it lies
\* inside at least one TRUE period, also when periods of one polarity
\* overlap or abut.  (Intervals of length zero are left aside.)
C15_SegmentsFollowPeriods ==
    returned.fn = "create_unified_timeline" =>
        {returned.value[k] : k \in {x \in DOMAIN returned.value :
                                      returned.value[x].start < returned.value[x].end}}
        = ClaimedSegments(args.entity_history, args.periods)

\* the time points of one period: its start, the observations strictly
\* inside it, its end
TimePoints(history_cache, period) ==
    LET Inside(e) == /\ e.time > parse_timestamp(period.start)
                     /\ e.time < parse_timestamp(period.end)
        relevant == SelectSeq(history_cache, Inside)
    IN  <<parse_timestamp(period.start)>>
        \o Vec([k \in 1..Len(relevant) |-> relevant[k].time])
        \o <<parse_timestamp(period.end)>>

\* the value of the last observation at or before t in the history sorted
\* by timestamp, ties in input order; <<>> when there is none
LastObservation(history_cache, t) ==
    LET before == {k \in 1..Len(history_cache) : history_cache[k].time <= t}
        last == CHOOSE k \in before : \A m \in before : m <= k
    IN  IF before = {} THEN <<>> ELSE history_cache[last].value

\* the chunks of one period as claimed: every interval of at least 1000 ms
\* between consecutive time points carries the last observation at or
\* before its start
ClaimedPeriodChunks(history_cache, period) ==
    LET time_points == TimePoints(history_cache, period)
        Emitted(i) == /\ time_points[i + 1] - time_points[i] >= MinChunkMillis
                      /\ LastObservation(history_cache, time_points[i]) # <<>>
        starts == SelectSeq(Vec([i \in 1..(Len(time_points) - 1) |-> i]), Emitted)
    IN  Vec([k \in 1..Len(starts) |->
            [sensor_value   |-> LastObservation(history_cache,
                                                time_points[starts[k]])[1],
             duration       |-> time_points[starts[k] + 1] - time_points[starts[k]],
             desired_output |-> period.is_true_period]])

AllNumeric(entity_history) ==
    \A k \in DOMAIN entity_history : ParseF64(entity_history[k].state) # <<>>

\* C16 (as stated), for histories whose observations are all numeric: for
\* each period, every chunk carries the value of the last observation at or
\* before the chunk's start, observations ordered by timestamp with ties in
\* input order, and no chunk is emitted before the first observation.
C16_ChunkCarriesLastObservation ==
    (returned.fn = "create_sensor_period_chunks" /\ AllNumeric(args.entity_history)) =>
        returned.value =
            Flatten(Vec([q \in 1..Len(args.periods) |->
                ClaimedPeriodChunks(HistoryCache(args.entity_history),
                                    args.periods[q])]))

\* the chunk loop as claimed, from time point i on: the observation at a
\* time point inside the period becomes the value in force whether or not
\* the interval that starts there is long enough to be emitted
RECURSIVE ClaimedChunkLoop(_, _, _, _, _)
ClaimedChunkLoop(history_cache, time_points, i, current_value, desired_output) ==
    IF i > Len(time_points) - 1 THEN <<>>
    ELSE
      LET duration == time_points[i + 1] - time_points[i]
          hits == {k \in 1..Len(history_cache) :
                      history_cache[k].time = time_points[i]}
          first == CHOOSE k \in hits : \A m \in hits : k <= m
          updated == IF i > 1 /\ hits # {} /\ history_cache[first].value # <<>>
                     THEN history_cache[first].value
                     ELSE current_value
          emitted == IF duration >= MinChunkMillis /\ updated # <<>>
                     THEN << [sensor_value   |-> updated[1],
                              duration       |-> duration,
                              desired_output |-> desired_output] >>
                     ELSE <<>>
      IN  emitted \o ClaimedChunkLoop(history_cache, time_points, i + 1, updated,
                                      desired_output)

\* C20 (as stated): a numeric observation strictly inside a period is the
\* value in force for the following chunks of the period until the next
\* numeric observation, also when the interval starting at it is shorter
\* than 1000 ms and dropped: the chunks returned are those of the loop that
\* takes up every numeric observation.
C20_ShortChunkStillUpdates ==
    returned.fn = "create_sensor_period_chunks" =>
        returned.value =
            LET history_cache == HistoryCache(args.entity_history)
            IN  IF args.entity_history = <<>> THEN <<>>
                ELSE Flatten(Vec([q \in 1..Len(args.periods) |->
                        ClaimedChunkLoop(
                            history_cache,
                            TimePoints(history_cache, args.periods[q]),
                            1,
                            LastObservation(history_cache,
                                            parse_timestamp(args.periods[q].start)),
                            args.periods[q].is_true_period)]))

\* the period list ps listed in the order given by the permutation order
Reordered(ps, order) == [i \in DOMAIN ps |-> ps[order[i]]]

\* C19 (as stated): for a categorical entity the occurrence counts that
\* create_unified_timeline and analyze_state_segments produce are the same
\* for every order in which the periods are listed, periods of one
\* polarity that abut included.
C19_PeriodOrderIrrelevant ==
    (/\ returned.fn = "analyze_state_segments"
     /\ args.entity_history # <<>>
     /\ ~is_numeric_entity(args.entity_history)) =>
        \A order \in Perms(DOMAIN args.periods) :
            analyze_state_segments(
                create_unified_timeline(args.entity_history,
                                        Reordered(args.periods, order)))
            = returned.value

====
